---- MODULE Spec2Model ----
(***************************************************************************)
(* tinyredis: the RESP frame decoder (src/src/protocol.rs), the connection *)
(* task and handle_command (src/src/main.rs), and the shared store         *)
(* Arc<Mutex<HashMap<String, ValueEntry>>>.                                *)
(*                                                                         *)
(* Bytes are one-character strings; besides ASCII the model has the byte   *)
(* 0xFF, which no UTF-8 text holds, and the two bytes 0xC3 0xA9 of one     *)
(* two-byte character.                                                     *)
(***************************************************************************)
EXTENDS Integers, Sequences, FiniteSets, TLC

\* ------------------------------------------------------------------ text

CR == "\r"
LF == "\n"
CRLF == <<CR, LF>>

\* Option<integer>: Some(v), or None
Some(v) == [some |-> TRUE, v |-> v]
None == [some |-> FALSE, v |-> 0]

Digits == <<"0", "1", "2", "3", "4", "5", "6", "7", "8", "9">>

IsDigit(ch) == \E i \in 1..10 : Digits[i] = ch

DigitVal(ch) == (CHOOSE i \in 1..10 : Digits[i] = ch) - 1

LowerCase ==
  <<"a", "b", "c", "d", "e", "f", "g", "h", "i", "j", "k", "l", "m",
    "n", "o", "p", "q", "r", "s", "t", "u", "v", "w", "x", "y", "z">>

UpperCase ==
  <<"A", "B", "C", "D", "E", "F", "G", "H", "I", "J", "K", "L", "M",
    "N", "O", "P", "Q", "R", "S", "T", "U", "V", "W", "X", "Y", "Z">>

\* str::to_uppercase on ASCII text
to_uppercase(s) ==
  [i \in 1..Len(s) |->
     IF \E j \in 1..26 : LowerCase[j] = s[i]
       THEN UpperCase[CHOOSE j \in 1..26 : LowerCase[j] = s[i]]
       ELSE s[i]]

\* the bytes that are not ASCII: 0xFF occurs in no UTF-8 text, 0xC3 opens a
\* two-byte character and 0xA9 continues one
BYTE_FF == "0xFF"
BYTE_C3 == "0xC3"
BYTE_A9 == "0xA9"

\* std::str::from_utf8(bytes).is_ok(): no 0xFF, every 0xC3 followed by a
\* 0xA9 and every 0xA9 preceded by a 0xC3
from_utf8_ok(bytes) ==
  \A i \in 1..Len(bytes) :
    /\ bytes[i] # BYTE_FF
    /\ bytes[i] = BYTE_C3 => (i < Len(bytes) /\ bytes[i + 1] = BYTE_A9)
    /\ bytes[i] = BYTE_A9 => (i > 1 /\ bytes[i - 1] = BYTE_C3)

\* str::is_char_boundary(i) on a text, i a 0-based byte offset within it
is_char_boundary(s, i) == i = 0 \/ i = Len(s) \/ s[i + 1] # BYTE_A9

\* &s[from..] with a 0-based offset
Skip(s, from) == SubSeq(s, from + 1, Len(s))

\* &s[..to] with a 0-based exclusive end
Take(s, to) == SubSeq(s, 1, to)

\* str::find("\r\n"): the 0-based offset of the first CRLF, or None
find(input) ==
  LET at(p) == input[p + 1] = CR /\ input[p + 2] = LF
      range == 0..(Len(input) - 2)
  IN IF \E p \in range : at(p)
       THEN Some(CHOOSE p \in range : at(p) /\ \A q \in 0..(p - 1) : ~at(q))
       ELSE None

\* the decimal value of a non-empty sequence of digits
RECURSIVE DecValue(_)
DecValue(ds) ==
  IF Len(ds) = 0 THEN 0
  ELSE 10 * DecValue(Take(ds, Len(ds) - 1)) + DigitVal(ds[Len(ds)])

AllDigits(ds) == Len(ds) > 0 /\ \A i \in 1..Len(ds) : IsDigit(ds[i])

\* the digits without their leading zeros (at least one digit is kept)
RECURSIVE StripZeros(_)
StripZeros(ds) ==
  IF Len(ds) > 1 /\ ds[1] = "0" THEN StripZeros(Tail(ds)) ELSE ds

\* a <= b for two digit sequences of the same length
RECURSIVE LexLeq(_, _)
LexLeq(a, b) ==
  IF Len(a) = 0 THEN TRUE
  ELSE IF DigitVal(a[1]) < DigitVal(b[1]) THEN TRUE
  ELSE IF DigitVal(a[1]) > DigitVal(b[1]) THEN FALSE
  ELSE LexLeq(Tail(a), Tail(b))

\* the number written by ds is at most the number written by max; the test
\* is made on the text because the limits of a 64-bit integer are wider than
\* the integers the model computes with
FitsIn(ds, max) ==
  LET d == StripZeros(ds)
  IN Len(d) < Len(max) \/ (Len(d) = Len(max) /\ LexLeq(d, max))

\* i64::MAX, -i64::MIN and u64::MAX in decimal
I64MaxText ==
  <<"9", "2", "2", "3", "3", "7", "2", "0", "3", "6", "8", "5", "4", "7",
    "7", "5", "8", "0", "7">>
I64MinText ==
  <<"9", "2", "2", "3", "3", "7", "2", "0", "3", "6", "8", "5", "4", "7",
    "7", "5", "8", "0", "8">>
U64MaxText ==
  <<"1", "8", "4", "4", "6", "7", "4", "4", "0", "7", "3", "7", "0", "9",
    "5", "5", "1", "6", "1", "5">>

\* i64::from_str and str::parse::<isize>: an optional sign and at least one
\* digit, in range; None stands for Err
parse_signed(s) ==
  IF Len(s) = 0 THEN None
  ELSE IF s[1] = "-" THEN
         (IF AllDigits(Tail(s)) /\ FitsIn(Tail(s), I64MinText)
            THEN Some(0 - DecValue(Tail(s))) ELSE None)
  ELSE IF s[1] = "+" THEN
         (IF AllDigits(Tail(s)) /\ FitsIn(Tail(s), I64MaxText)
            THEN Some(DecValue(Tail(s))) ELSE None)
  ELSE IF AllDigits(s) /\ FitsIn(s, I64MaxText) THEN Some(DecValue(s)) ELSE None

\* str::parse::<u64>: an optional plus sign and at least one digit, in range
parse_u64(s) ==
  IF Len(s) = 0 THEN None
  ELSE IF s[1] = "+" THEN
         (IF AllDigits(Tail(s)) /\ FitsIn(Tail(s), U64MaxText)
            THEN Some(DecValue(Tail(s))) ELSE None)
  ELSE IF AllDigits(s) /\ FitsIn(s, U64MaxText) THEN Some(DecValue(s)) ELSE None

\* the decimal text of a natural number, as format!("{}", n) writes it
RECURSIVE ToDec(_)
ToDec(n) ==
  IF n < 10 THEN <<Digits[n + 1]>>
  ELSE ToDec(n \div 10) \o <<Digits[(n % 10) + 1]>>

\* --------------------------------------------------------- RespValue

SimpleString(s) == [t |-> "SimpleString", s |-> s, n |-> 0, items |-> <<>>]
Error(s) == [t |-> "Error", s |-> s, n |-> 0, items |-> <<>>]
Integer(n) == [t |-> "Integer", s |-> <<>>, n |-> n, items |-> <<>>]
BulkString(s) == [t |-> "BulkString", s |-> s, n |-> 0, items |-> <<>>]
NullBulk == [t |-> "NullBulk", s |-> <<>>, n |-> 0, items |-> <<>>]
Array(items) == [t |-> "Array", s |-> <<>>, n |-> 0, items |-> items]

\* ------------------------------------------------------ parse results

Ok(value, rest) == [kind |-> "Ok", value |-> value, rest |-> rest]
Incomplete == [kind |-> "Incomplete", value |-> NullBulk, rest |-> <<>>]
InvalidFormat == [kind |-> "InvalidFormat", value |-> NullBulk, rest |-> <<>>]
\* the task panics: an arithmetic overflow, an out-of-range slice or a
\* capacity overflow aborts the connection task
Panic == [kind |-> "Panic", value |-> NullBulk, rest |-> <<>>]

parse_simple_string(input) ==
  LET found == find(input)
      pos == found.v
  IN IF ~found.some THEN Incomplete
     ELSE Ok(SimpleString(Take(input, pos)), Skip(input, pos + 2))

parse_error(input) ==
  LET found == find(input)
      pos == found.v
  IN IF ~found.some THEN Incomplete
     ELSE Ok(Error(Take(input, pos)), Skip(input, pos + 2))

parse_integer(input) ==
  LET found == find(input)
      pos == found.v
  IN IF ~found.some THEN Incomplete
     ELSE LET num == parse_signed(Take(input, pos))
          IN IF ~num.some THEN InvalidFormat
             ELSE Ok(Integer(num.v), Skip(input, pos + 2))

parse_bulk_string(input) ==
  LET found == find(input)
      pos == found.v
  IN IF ~found.some THEN Incomplete
     ELSE LET parsed == parse_signed(Take(input, pos))
              len == parsed.v
              rest == Skip(input, pos + 2)
          IN IF ~parsed.some THEN InvalidFormat
             ELSE IF len = -1 THEN Ok(NullBulk, rest)
             \* len as usize wraps a negative len to 2^64 + len. For -2,
             \* len + 2 overflows usize: a panic in a debug build; a release
             \* build wraps it to 0 and then slices &rest[..len] out of
             \* range: a panic too
             ELSE IF len = -2 THEN Panic
             \* below -2, len + 2 is 2^64 + len + 2, more than any buffer
             \* holds
             ELSE IF len < -2 THEN Incomplete
             ELSE IF Len(rest) < len + 2 THEN Incomplete
             \* &rest[..len] and &rest[len..len + 2] panic when an end is
             \* inside a character
             ELSE IF ~is_char_boundary(rest, len) \/ ~is_char_boundary(rest, len + 2)
               THEN Panic
             ELSE IF SubSeq(rest, len + 1, len + 2) # CRLF THEN InvalidFormat
             ELSE Ok(BulkString(Take(rest, len)), Skip(rest, len + 2))

RECURSIVE parse(_)
RECURSIVE parse_items(_, _, _)

\* mutant: the loop stops one element short of the declared count
parse_items_short(rest, left, items) ==
  IF left <= 1 THEN Ok(Array(items), rest)
  ELSE LET r == parse(rest)
       IN IF r.kind # "Ok" THEN r
          ELSE parse_items(r.rest, left - 1, Append(items, r.value))

\* the loop of parse_array: for _ in 0..len { parse(rest)? }
parse_items(rest, left, items) ==
  IF left <= 0 THEN Ok(Array(items), rest)
  ELSE LET r == parse(rest)
       IN IF r.kind # "Ok" THEN r
          ELSE parse_items(r.rest, left - 1, Append(items, r.value))

parse_array(input) ==
  LET found == find(input)
      pos == found.v
  IN IF ~found.some THEN Incomplete
     ELSE LET parsed == parse_signed(Take(input, pos))
              len == parsed.v
              rest == Skip(input, pos + 2)
          IN IF ~parsed.some THEN InvalidFormat
             ELSE IF len = -1 THEN Ok(Array(<<>>), rest)
             \* Vec::with_capacity(len as usize) with a negative len asks
             \* for more than isize::MAX bytes: capacity overflow
             ELSE IF len < -1 THEN Panic
             ELSE parse_items(rest, len, <<>>)

parse(input) ==
  IF Len(input) = 0 THEN InvalidFormat
  ELSE IF input[1] = "+" THEN parse_simple_string(Tail(input))
  ELSE IF input[1] = "-" THEN parse_error(Tail(input))
  ELSE IF input[1] = ":" THEN parse_integer(Tail(input))
  ELSE IF input[1] = "$" THEN parse_bulk_string(Tail(input))
  ELSE IF input[1] = "*" THEN parse_array(Tail(input))
  ELSE InvalidFormat

\* ------------------------------------------------- the replies written

\* +PONG\r\n (main.rs:92)
PONG ==
  <<"+", "P", "O", "N", "G", CR, LF>>

\* -ERR wrong number of arguments for 'echo'\r\n (main.rs:102)
ERR_ECHO_ARGS ==
  <<"-", "E", "R", "R", " ", "w", "r", "o", "n", "g", " ", "n", "u", "m",
    "b", "e", "r", " ", "o", "f", " ", "a", "r", "g", "u", "m", "e", "n",
    "t", "s", " ", "f", "o", "r", " ", "'", "e", "c", "h", "o", "'", CR,
    LF>>

\* -ERR wrong number of arguments for 'set'\r\n (main.rs:109)
ERR_SET_ARGS ==
  <<"-", "E", "R", "R", " ", "w", "r", "o", "n", "g", " ", "n", "u", "m",
    "b", "e", "r", " ", "o", "f", " ", "a", "r", "g", "u", "m", "e", "n",
    "t", "s", " ", "f", "o", "r", " ", "'", "s", "e", "t", "'", CR, LF>>

\* -ERR invalid key\r\n (main.rs:117, 173)
ERR_INVALID_KEY ==
  <<"-", "E", "R", "R", " ", "i", "n", "v", "a", "l", "i", "d", " ", "k",
    "e", "y", CR, LF>>

\* -ERR invalid value\r\n (main.rs:125)
ERR_INVALID_VALUE ==
  <<"-", "E", "R", "R", " ", "i", "n", "v", "a", "l", "i", "d", " ", "v",
    "a", "l", "u", "e", CR, LF>>

\* -ERR invalid expire time\r\n (main.rs:144)
ERR_INVALID_EXPIRE ==
  <<"-", "E", "R", "R", " ", "i", "n", "v", "a", "l", "i", "d", " ", "e",
    "x", "p", "i", "r", "e", " ", "t", "i", "m", "e", CR, LF>>

\* +OK\r\n (main.rs:160)
OK ==
  <<"+", "O", "K", CR, LF>>

\* -ERR wrong number of arguments for 'get'\r\n (main.rs:165)
ERR_GET_ARGS ==
  <<"-", "E", "R", "R", " ", "w", "r", "o", "n", "g", " ", "n", "u", "m",
    "b", "e", "r", " ", "o", "f", " ", "a", "r", "g", "u", "m", "e", "n",
    "t", "s", " ", "f", "o", "r", " ", "'", "g", "e", "t", "'", CR, LF>>

\* $-1\r\n (main.rs:184, 192)
NULL_BULK ==
  <<"$", "-", "1", CR, LF>>

\* -ERR unknown command\r\n (main.rs:196)
ERR_UNKNOWN_COMMAND ==
  <<"-", "E", "R", "R", " ", "u", "n", "k", "n", "o", "w", "n", " ", "c",
    "o", "m", "m", "a", "n", "d", CR, LF>>

\* -ERR malformed command\r\n (main.rs:200)
ERR_MALFORMED_COMMAND ==
  <<"-", "E", "R", "R", " ", "m", "a", "l", "f", "o", "r", "m", "e", "d",
    " ", "c", "o", "m", "m", "a", "n", "d", CR, LF>>

\* -ERR protocol error\r\n (main.rs:204)
ERR_PROTOCOL ==
  <<"-", "E", "R", "R", " ", "p", "r", "o", "t", "o", "c", "o", "l", " ",
    "e", "r", "r", "o", "r", CR, LF>>

\* format!("+{}\r\n", message)
status_reply(message) == <<"+">> \o message \o CRLF

\* format!("${}\r\n{}\r\n", message.len(), message)
bulk_reply(message) == <<"$">> \o ToDec(Len(message)) \o CRLF \o message \o CRLF

\* ----------------------------------------------------- handle_command

\* mutant: any element at position i passes for a present bulk string
is_bulk_any(elements, i) == i < Len(elements)

\* elements.get(i) matches Some(RespValue::BulkString(Some(_))), i 0-based
is_bulk(elements, i) == i < Len(elements) /\ elements[i + 1].t = "BulkString"

C_PING == <<"P", "I", "N", "G">>
C_ECHO == <<"E", "C", "H", "O">>
C_SET == <<"S", "E", "T">>
C_GET == <<"G", "E", "T">>
C_PX == <<"P", "X">>

\* what handle_command has decided when it first suspends: the reply it is
\* about to write (next = "write"), or the store operation it is about to
\* lock the store for (next = "set_lock", "get_lock")
Reply(resp) ==
  [next |-> "write", resp |-> resp, key |-> <<>>, val |-> <<>>,
   expires_at |-> None]
LockForSet(key, val, expires_at) ==
  [next |-> "set_lock", resp |-> <<>>, key |-> key, val |-> val,
   expires_at |-> expires_at]
LockForGet(key) ==
  [next |-> "get_lock", resp |-> <<>>, key |-> key, val |-> <<>>,
   expires_at |-> None]

\* Instant::now() + Duration::from_millis(miliseconds)
expiry_of(instant, miliseconds) == instant + miliseconds

\* the "SET" arm up to db.lock().await; instant is what Instant::now() returns
handle_set(elements, instant) ==
  IF Len(elements) < 3 THEN Reply(ERR_SET_ARGS)
  ELSE IF ~is_bulk(elements, 1) THEN Reply(ERR_INVALID_KEY)
  ELSE IF ~is_bulk(elements, 2) THEN Reply(ERR_INVALID_VALUE)
  ELSE LET key == elements[2].s
           val == elements[3].s
       IN IF Len(elements) >= 5 /\ is_bulk(elements, 3) /\ is_bulk(elements, 4)
             /\ to_uppercase(elements[4].s) = C_PX
            THEN LET miliseconds == parse_u64(elements[5].s)
                 IN IF miliseconds.some
                      THEN LockForSet(key, val,
                                      Some(expiry_of(instant, miliseconds.v)))
                      ELSE Reply(ERR_INVALID_EXPIRE)
            ELSE LockForSet(key, val, None)

\* the "GET" arm up to db.lock().await
handle_get(elements) ==
  IF Len(elements) # 2 THEN Reply(ERR_GET_ARGS)
  ELSE IF ~is_bulk(elements, 1) THEN Reply(ERR_INVALID_KEY)
  ELSE LockForGet(elements[2].s)

\* the reply to a command name that is none of PING, ECHO, SET, GET
unknown_reply(cmd) == ERR_UNKNOWN_COMMAND

\* handle_command up to its first suspension point
handle_command(value, instant) ==
  IF value.t # "Array" THEN Reply(ERR_PROTOCOL)
  ELSE LET elements == value.items
       IN IF ~is_bulk(elements, 0) THEN Reply(ERR_MALFORMED_COMMAND)
          ELSE LET cmd == elements[1].s
                   upper == to_uppercase(cmd)
               IN IF upper = C_PING THEN
                    (IF is_bulk(elements, 1)
                       THEN Reply(status_reply(elements[2].s))
                       ELSE Reply(PONG))
                  ELSE IF upper = C_ECHO THEN
                    (IF is_bulk(elements, 1)
                       THEN Reply(bulk_reply(elements[2].s))
                       ELSE Reply(ERR_ECHO_ARGS))
                  ELSE IF upper = C_SET THEN handle_set(elements, instant)
                  ELSE IF upper = C_GET THEN handle_get(elements)
                  ELSE Reply(unknown_reply(cmd))

\* ---------------------------------------------------------- the store

\* ValueEntry, and the absence of an entry (HashMap::get returns None)
ValueEntry(value, expires_at) ==
  [present |-> TRUE, value |-> value, expires_at |-> expires_at]
Absent == [present |-> FALSE, value |-> <<>>, expires_at |-> None]

\* HashMap::new(): the map is a function from the keys it holds
EmptyMap == [k \in {} |-> Absent]

\* mutant: a key the map does not hold is found with an empty value
get_or_default(map, key) ==
  IF key \in DOMAIN map THEN map[key] ELSE ValueEntry(<<>>, None)

\* db.get(key)
get(map, key) == IF key \in DOMAIN map THEN map[key] ELSE Absent

\* mutant: a SET without PX keeps the expiry of the entry it replaces
insert_keep_expiry(map, key, value, expires_at) ==
  [k \in DOMAIN map \cup {key} |->
     IF k = key
       THEN ValueEntry(value,
                       IF ~expires_at.some /\ key \in DOMAIN map
                         THEN map[key].expires_at ELSE expires_at)
       ELSE map[k]]

\* db.insert(key, ValueEntry { value, expires_at })
insert(map, key, value, expires_at) ==
  [k \in DOMAIN map \cup {key} |->
     IF k = key THEN ValueEntry(value, expires_at) ELSE map[k]]

\* mutant: the expired entry is left in the map
remove_nothing(map, key) == map

\* db.remove(key)
remove(map, key) == [k \in DOMAIN map \ {key} |-> map[k]]

\* mutant: the entry is expired from the instant of its expiry on
is_expired_from(entry, instant) ==
  entry.expires_at.some /\ instant >= entry.expires_at.v

\* the test of the "GET" arm: entry.expires_at is Some(expiry) and
\* Instant::now() > expiry
is_expired(entry, instant) ==
  entry.expires_at.some /\ instant > entry.expires_at.v

\* the "GET" arm once db.get(key) has returned Some(entry): the map it
\* leaves and the reply it writes
get_found(map, key, entry, instant) ==
  IF is_expired(entry, instant)
    THEN [db |-> remove(map, key), resp |-> NULL_BULK]
    ELSE [db |-> map, resp |-> bulk_reply(entry.value)]

\* ------------------------------------------------------- the peers

\* the wire encoding of a RespValue (the formats of the RespValue doc
\* comments), which the peers use to build what they send
RECURSIVE encode(_)
RECURSIVE encode_all(_)
encode_all(items) ==
  IF Len(items) = 0 THEN <<>>
  ELSE encode(Head(items)) \o encode_all(Tail(items))

encode(value) ==
  IF value.t = "SimpleString" THEN <<"+">> \o value.s \o CRLF
  ELSE IF value.t = "Error" THEN <<"-">> \o value.s \o CRLF
  ELSE IF value.t = "Integer" THEN
    <<":">> \o (IF value.n < 0 THEN <<"-">> \o ToDec(0 - value.n)
                ELSE ToDec(value.n)) \o CRLF
  ELSE IF value.t = "BulkString" THEN
    <<"$">> \o ToDec(Len(value.s)) \o CRLF \o value.s \o CRLF
  ELSE IF value.t = "NullBulk" THEN <<"$", "-", "1">> \o CRLF
  ELSE <<"*">> \o ToDec(Len(value.items)) \o CRLF \o encode_all(value.items)

\* a command as a client sends it: an array of bulk strings
Command(args) == encode(Array([i \in 1..Len(args) |-> BulkString(args[i])]))

\* the texts the peers use
K == <<"k">>
J == <<"j">>
V == <<"v">>
W == <<"w">>
HI == <<"h", "i">>
X == <<"x">>

\* what a peer sends is a script: a sequence of items, each a frame or a
\* piece of text; the stream is their concatenation
RECURSIVE Flatten(_)
Flatten(script) ==
  IF Len(script) = 0 THEN <<>>
  ELSE Head(script) \o Flatten(Tail(script))

\* the offsets in the stream at which an item of the script ends
Boundaries(script) ==
  {Len(Flatten(SubSeq(script, 1, i))) : i \in 1..Len(script)}

\* the scripts of the first connection
ExpiryScript ==
  <<Command(<<C_SET, K, V, C_PX, <<"1">>>>), Command(<<C_GET, K>>),
    Command(<<C_GET, K>>)>>
OverwriteScript ==
  <<Command(<<C_SET, K, V, <<"p", "x">>, <<"1">>>>), Command(<<C_SET, K, X>>),
    Command(<<C_GET, K>>)>>
UnknownScript ==
  <<Command(<<<<"f", "o", "o">>, K>>), Command(<<C_PING, HI>>),
    Command(<<C_GET, K>>)>>
ValidationScript ==
  <<Command(<<C_ECHO>>), Command(<<C_GET>>), Command(<<C_SET, K>>),
    encode(Array(<<BulkString(C_SET), BulkString(K), NullBulk>>)),
    encode(Array(<<BulkString(C_GET), NullBulk>>)),
    Command(<<<<"e", "c", "h", "o">>, HI>>), Command(<<C_GET, K>>)>>
BadPxScript ==
  <<Command(<<C_SET, K, V, C_PX, <<"a", "b">>>>), Command(<<C_GET, K>>)>>
NegativePxScript ==
  <<Command(<<C_SET, K, V, C_PX, <<"-", "5">>>>), Command(<<C_GET, K>>)>>
OtherOptionScript ==
  <<Command(<<C_SET, K, V, <<"E", "X">>, <<"1">>>>), Command(<<C_GET, K>>)>>
NotArrayScript == <<encode(Integer(1)), Command(<<C_PING>>)>>
NotBulkFirstScript == <<encode(Array(<<Integer(1)>>)), Command(<<C_PING>>)>>
BadTagScript == <<<<"!">> \o CRLF, Command(<<C_PING>>)>>
BadLengthScript == <<<<"$", "x">> \o CRLF, Command(<<C_PING>>)>>
BadTerminatorScript ==
  <<<<"$", "1">> \o CRLF \o <<"a", "b", "c">>, Command(<<C_PING>>)>>
NegativeLengthScript == <<<<"$", "-", "2">> \o CRLF, Command(<<C_PING>>)>>

\* the scripts of the first connection that use the store
StoreScripts == {ExpiryScript, OverwriteScript}

\* the scripts of the first connection with commands and frames the server
\* rejects
ErrorScripts ==
  {UnknownScript, ValidationScript, BadPxScript, NegativePxScript,
   OtherOptionScript, NotArrayScript, NotBulkFirstScript, BadTagScript,
   BadLengthScript, BadTerminatorScript, NegativeLengthScript}

\* the scripts of the second connection
Scripts2 ==
  {<<Command(<<C_SET, K, W>>), Command(<<C_GET, K>>)>>,
   <<Command(<<C_GET, K>>), Command(<<C_SET, K, W, C_PX, <<"2">>>>)>>}
OtherScript == <<Command(<<C_SET, K, W>>)>>

\* the scripts of well-formed commands whose stream is cut anywhere
FragScripts ==
  {<<Command(<<C_PING>>), Command(<<C_SET, K, V>>), Command(<<C_GET, K>>)>>,
   <<Command(<<C_ECHO, HI>>), Command(<<C_GET, J>>),
     Command(<<C_SET, J, W, C_PX, <<"1">>>>)>>,
   <<Command(<<C_PING, HI>>), Command(<<<<"f", "o", "o">>>>),
     Command(<<C_ECHO>>)>>,
   <<Command(<<C_PING>>), Command(<<C_ECHO, <<BYTE_C3, BYTE_A9>>>>)>>,
   <<Command(<<C_PING>>), Command(<<C_ECHO, <<BYTE_FF>>>>)>>}

\* two connections asking for a key before any SET of it
MissScript1 ==
  <<Command(<<C_GET, J>>), Command(<<C_GET, J>>), Command(<<C_SET, J, V>>),
    Command(<<C_GET, J>>)>>
MissScript2 ==
  <<Command(<<C_GET, J>>), Command(<<C_SET, K, W>>), Command(<<C_GET, J>>)>>

\* a peer that sets a key, pings, and is gone in the middle of a frame; and
\* a peer that asks for the key twice
CloseScript ==
  <<Command(<<C_SET, K, V>>), Command(<<C_PING>>),
    <<"*", "2">> \o CRLF \o <<"$", "3">> \o CRLF \o <<"G", "E">>>>
AskTwiceScript == <<Command(<<C_GET, K>>), Command(<<C_GET, K>>)>>

\* a text with a CRLF inside, as a bulk string may carry it
A_CRLF_B == <<"a", CR, LF, "b">>

\* values the decoder produces: each kind, empty and nested arrays, texts
\* that are empty, hold a CRLF or a two-byte character
DecodedValues ==
  {SimpleString(<<"O", "K">>), SimpleString(<<>>), Error(<<"E", "R", "R">>),
   Integer(0), Integer(12), Integer(-5),
   BulkString(<<>>), BulkString(HI), BulkString(A_CRLF_B),
   BulkString(<<BYTE_C3, BYTE_A9>>), NullBulk,
   Array(<<>>), Array(<<Integer(1), NullBulk>>),
   Array(<<Array(<<BulkString(HI)>>), SimpleString(<<"O", "K">>)>>)}

\* a peer sending one encoded value
ValueScripts == {<<encode(v)>> : v \in DecodedValues}

\* a peer sending commands whose texts hold a CRLF, and commands that use
\* the store
ReplyScripts ==
  {<<Command(<<C_PING, HI>>), Command(<<C_ECHO, A_CRLF_B>>)>>,
   <<Command(<<C_PING, A_CRLF_B>>)>>,
   <<Command(<<C_SET, K, A_CRLF_B, C_PX, <<"1">>>>), Command(<<C_GET, K>>),
     Command(<<C_GET, J>>)>>}

\* a peer writing its numbers with a sign or a leading zero, and the array
\* of count -1, each followed by a PING
SpellingScripts ==
  {<<<<":", "+", "5">> \o CRLF, Command(<<C_PING>>)>>,
   <<<<":", "-", "0">> \o CRLF, Command(<<C_PING>>)>>,
   <<<<"$", "0", "1">> \o CRLF \o <<"a">> \o CRLF, Command(<<C_PING>>)>>,
   <<<<"*", "-", "1">> \o CRLF, Command(<<C_PING>>)>>,
   <<<<"*", "+", "1">> \o CRLF \o encode(BulkString(C_PING)),
     Command(<<C_PING>>)>>}

\* a peer declaring a length or a count below -1, or a length that ends
\* inside a two-byte character, each followed by a PING
BelowMinusOneScripts ==
  {<<<<"$", "-", "2">> \o CRLF, Command(<<C_PING>>)>>,
   <<<<"$", "-", "3">> \o CRLF, Command(<<C_PING>>)>>,
   <<<<"*", "-", "2">> \o CRLF, Command(<<C_PING>>)>>,
   <<<<"$", "1">> \o CRLF \o <<BYTE_C3, BYTE_A9>> \o CRLF,
     Command(<<C_PING>>)>>}

\* the scripts of the connection that exercises the decoder
DecScripts ==
  ValueScripts \cup ReplyScripts \cup SpellingScripts
    \cup BelowMinusOneScripts

\* ------------------------------------------------------------- state

Conns == {"c1", "c2"}

\* the clock stops at MaxTime
MaxTime == 3

\* let mut read_buf = [0u8; 512]
ReadBufSize == 512

VARIABLES
  stream,   \* per connection: the text its peer sends before closing
  cuts,     \* per connection: the offsets at which the network may end a read
  writable, \* per connection: how many write_all succeed before the peer
            \* stops taking what is written (None: all of them)
  pos,      \* per connection: how much of the stream has been read
  buffer,   \* per connection: the Vec<u8> buffer of the task
  pc,       \* per connection: where the task is suspended
  local,    \* per connection: the locals of handle_command
  out,      \* per connection: the replies written, one per write_all
  db,       \* the HashMap behind the Mutex
  lock,     \* the connections holding a MutexGuard of db
  now,      \* what Instant::now() returns
  lastSet   \* history: per key, the SET that inserted the entry last

vars == <<stream, cuts, writable, pos, buffer, pc, local, out, db, lock, now, lastSet>>

NoFrame == NullBulk

\* the locals of handle_command: the decoded value, the instant at which it
\* was handed over, what the command decided, the entry db.get returned and
\* the reply about to be written
Idle ==
  [frame |-> NoFrame, at |-> 0, key |-> <<>>, val |-> <<>>,
   expires_at |-> None, entry |-> Absent, resp |-> <<>>]

NoSet == [at |-> 0, frame |-> NoFrame]

InitState(s1, cuts1, s2, cuts2, w1) ==
  /\ writable = [c \in Conns |-> IF c = "c1" THEN w1 ELSE None]
  /\ stream = [c \in Conns |-> IF c = "c1" THEN s1 ELSE s2]
  /\ cuts = [c \in Conns |-> IF c = "c1" THEN cuts1 ELSE cuts2]
  /\ pos = [c \in Conns |-> 0]
  /\ buffer = [c \in Conns |-> <<>>]
  /\ pc = [c \in Conns |-> "read"]
  /\ local = [c \in Conns |-> Idle]
  /\ out = [c \in Conns |-> <<>>]
  /\ db = EmptyMap
  /\ lock = {}
  /\ now = 0
  /\ lastSet = [k \in {} |-> NoSet]

\* the peers take everything that is written to them
InitWith(s1, cuts1, s2, cuts2) == InitState(s1, cuts1, s2, cuts2, None)

\* two connections using the store, each read ending where an item of the
\* script ends
Init ==
  \E s1 \in StoreScripts, s2 \in Scripts2 :
    InitWith(Flatten(s1), Boundaries(s1), Flatten(s2), Boundaries(s2))

\* a connection sending what the server rejects, beside one that sets a key
InitErr ==
  \E s1 \in ErrorScripts :
    InitWith(Flatten(s1), Boundaries(s1), Flatten(OtherScript), {})

\* one connection sending well-formed commands, a read ending anywhere; the
\* other peer sends nothing
InitFrag ==
  \E s1 \in FragScripts :
    InitWith(Flatten(s1), 1..Len(Flatten(s1)), <<>>, {})

\* two connections asking for a key that is set only later
InitMiss ==
  InitWith(Flatten(MissScript1), Boundaries(MissScript1),
           Flatten(MissScript2), Boundaries(MissScript2))

\* one connection sending encoded values and commands, a read ending
\* anywhere; the other peer sends nothing
InitDec ==
  \E s1 \in DecScripts :
    InitWith(Flatten(s1), 1..Len(Flatten(s1)), <<>>, {})

\* a connection whose peer stops taking replies (from the first or from the
\* second on, or never) and is gone in the middle of a frame, beside one
\* that reads the key it has set
InitClose ==
  \E w1 \in {None, Some(0), Some(1)} :
    InitState(Flatten(CloseScript), Boundaries(CloseScript),
              Flatten(AskTwiceScript), Boundaries(AskTwiceScript), w1)

\* mutant: the buffer is overwritten with what was read
extend_from_slice_overwrite(buf, bytes) == bytes

\* buffer.extend_from_slice(&read_buf[..n])
extend_from_slice(buf, bytes) == buf \o bytes

\* stream.read(&mut read_buf) returns Ok(n), n > 0
Read(c) ==
  /\ pc[c] = "read"
  /\ \E p \in cuts[c] \cup {Len(stream[c])} :
       /\ p > pos[c]
       /\ p - pos[c] <= ReadBufSize
       /\ buffer' = [buffer EXCEPT
                       ![c] = extend_from_slice(@, SubSeq(stream[c], pos[c] + 1, p))]
       /\ pos' = [pos EXCEPT ![c] = p]
  /\ pc' = [pc EXCEPT ![c] = "decode"]
  /\ UNCHANGED <<stream, cuts, writable, local, out, db, lock, now, lastSet>>

\* stream.read returns Ok(0) once the peer has sent everything and closed
\* (or Err): the task leaves its loop
ReadEnd(c) ==
  /\ pc[c] = "read"
  /\ pos[c] = Len(stream[c])
  /\ pc' = [pc EXCEPT ![c] = "closed"]
  /\ UNCHANGED <<stream, cuts, writable, pos, buffer, local, out, db, lock, now, lastSet>>

\* a buffer that is not UTF-8 text: the decoding loop breaks before parse
NotText == [kind |-> "NotText", value |-> NullBulk, rest |-> <<>>]

\* match std::str::from_utf8(&buffer) { Ok(s) => parse(s), Err(_) => break }
decode(buf) == IF from_utf8_ok(buf) THEN parse(buf) ELSE NotText

\* where the task goes when the turn does not end in Ok: a buffer that is not
\* text and Incomplete break out of the decoding loop, back to stream.read;
\* every other error is printed with eprintln! and breaks out of the
\* decoding loop too; a panic ends the task
after_error(kind) == IF kind = "Panic" THEN "panicked" ELSE "read"

\* one turn of the decoding loop: from_utf8 and parse(input), and on Ok
\* buffer = remaining and handle_command up to its first suspension
Decode(c) ==
  /\ pc[c] = "decode"
  /\ LET r == decode(buffer[c])
         h == handle_command(r.value, now)
     IN IF r.kind = "Ok"
          THEN /\ buffer' = [buffer EXCEPT ![c] = r.rest]
               /\ local' = [local EXCEPT
                    ![c] = [frame |-> r.value, at |-> now, key |-> h.key,
                            val |-> h.val, expires_at |-> h.expires_at,
                            entry |-> Absent, resp |-> h.resp]]
               /\ pc' = [pc EXCEPT ![c] = h.next]
          ELSE /\ pc' = [pc EXCEPT ![c] = after_error(r.kind)]
               /\ UNCHANGED <<buffer, local>>
  /\ UNCHANGED <<stream, cuts, writable, pos, out, db, lock, now, lastSet>>

\* mutant: the guard is handed out whoever holds it
can_lock_always(holders) == TRUE

\* db.lock().await returns when no other task holds the guard
can_lock(holders) == holders = {}

\* mutant: the SET takes the guard and is about to reply +OK, but its entry
\* is not in the map
SetLock_without_insert(c) ==
  /\ pc[c] = "set_lock"
  /\ can_lock(lock)
  /\ lock' = lock \cup {c}
  /\ lastSet' = [k \in DOMAIN lastSet \cup {local[c].key} |->
                   IF k = local[c].key
                     THEN [at |-> local[c].at, frame |-> local[c].frame]
                     ELSE lastSet[k]]
  /\ local' = [local EXCEPT ![c].resp = OK]
  /\ pc' = [pc EXCEPT ![c] = "write"]
  /\ UNCHANGED <<stream, cuts, writable, pos, buffer, out, db, now>>

\* the "SET" arm from db.lock().await to the write of +OK
SetLock(c) ==
  /\ pc[c] = "set_lock"
  /\ can_lock(lock)
  /\ lock' = lock \cup {c}
  /\ db' = insert(db, local[c].key, local[c].val, local[c].expires_at)
  /\ lastSet' = [k \in DOMAIN lastSet \cup {local[c].key} |->
                   IF k = local[c].key
                     THEN [at |-> local[c].at, frame |-> local[c].frame]
                     ELSE lastSet[k]]
  /\ local' = [local EXCEPT ![c].resp = OK]
  /\ pc' = [pc EXCEPT ![c] = "write"]
  /\ UNCHANGED <<stream, cuts, writable, pos, buffer, out, now>>

\* the "GET" arm from db.lock().await to db.get(key)
GetLock(c) ==
  /\ pc[c] = "get_lock"
  /\ can_lock(lock)
  /\ lock' = lock \cup {c}
  /\ LET entry == get(db, local[c].key)
     IN IF entry.present
          THEN /\ local' = [local EXCEPT ![c].entry = entry]
               /\ pc' = [pc EXCEPT ![c] = "get_check"]
          ELSE /\ local' = [local EXCEPT ![c].resp = NULL_BULK]
               /\ pc' = [pc EXCEPT ![c] = "write"]
  /\ UNCHANGED <<stream, cuts, writable, pos, buffer, out, db, now, lastSet>>

\* the "GET" arm on Some(entry): the expiry test, db.remove and the reply
GetCheck(c) ==
  /\ pc[c] = "get_check"
  /\ LET g == get_found(db, local[c].key, local[c].entry, now)
     IN /\ db' = g.db
        /\ local' = [local EXCEPT ![c].resp = g.resp]
  /\ pc' = [pc EXCEPT ![c] = "write"]
  /\ UNCHANGED <<stream, cuts, writable, pos, buffer, out, lock, now, lastSet>>

\* mutant: after one command the task goes back to stream.read
Write_then_read(c) ==
  /\ pc[c] = "write"
  /\ out' = [out EXCEPT ![c] = Append(@, local[c].resp)]
  /\ lock' = lock \ {c}
  /\ local' = [local EXCEPT ![c] = Idle]
  /\ pc' = [pc EXCEPT ![c] = "read"]
  /\ UNCHANGED <<stream, cuts, writable, pos, buffer, db, now, lastSet>>

\* stream.write_all returns Ok(()) while the peer takes what is written
write_all_ok(limit, written) == ~limit.some \/ written < limit.v

\* mutant: a failed write ends the task
after_write_checked(ok) == IF ok THEN "decode" ELSE "closed"

\* let _ = stream.write_all(..).await: the result is dropped, handle_command
\* returns and the decoding loop takes its next turn
after_write(ok) == "decode"

\* stream.write_all(response).await, then handle_command returns (dropping
\* the guard if it holds one) and the decoding loop takes its next turn
Write(c) ==
  /\ pc[c] = "write"
  /\ LET ok == write_all_ok(writable[c], Len(out[c]))
     IN /\ out' = [out EXCEPT ![c] = IF ok THEN Append(@, local[c].resp) ELSE @]
        /\ pc' = [pc EXCEPT ![c] = after_write(ok)]
  /\ lock' = lock \ {c}
  /\ local' = [local EXCEPT ![c] = Idle]
  /\ UNCHANGED <<stream, cuts, writable, pos, buffer, db, now, lastSet>>

\* time passes
Tick ==
  /\ now < MaxTime
  /\ now' = now + 1
  /\ UNCHANGED <<stream, cuts, writable, pos, buffer, pc, local, out, db, lock, lastSet>>

Next ==
  \/ \E c \in Conns : Read(c)
  \/ \E c \in Conns : ReadEnd(c)
  \/ \E c \in Conns : Decode(c)
  \/ \E c \in Conns : SetLock(c)
  \/ \E c \in Conns : GetLock(c)
  \/ \E c \in Conns : GetCheck(c)
  \/ \E c \in Conns : Write(c)
  \/ Tick

Spec == Init /\ [][Next]_vars

SpecErr == InitErr /\ [][Next]_vars

SpecFrag == InitFrag /\ [][Next]_vars

SpecMiss == InitMiss /\ [][Next]_vars

SpecDec == InitDec /\ [][Next]_vars

SpecClose == InitClose /\ [][Next]_vars

\* =================================================================
\* The claims
\* =================================================================

IsPrefix(a, b) == Len(a) <= Len(b) /\ SubSeq(b, 1, Len(a)) = a

\* What one task, alone with an empty store, writes when the text arrives in
\* a single read: the turns of the decoding loop taken one after the other,
\* each command carried through to its reply before the next turn.
RECURSIVE OneRead(_, _, _)
OneRead(buf, map, replies) ==
  LET r == decode(buf)
      h == handle_command(r.value, 0)
  IN IF r.kind # "Ok" THEN replies
     ELSE IF h.next = "write" THEN OneRead(r.rest, map, Append(replies, h.resp))
     ELSE IF h.next = "set_lock"
       THEN OneRead(r.rest, insert(map, h.key, h.val, h.expires_at),
                    Append(replies, OK))
     ELSE LET entry == get(map, h.key)
              g == get_found(map, h.key, entry, 0)
          IN IF entry.present
               THEN OneRead(r.rest, g.db, Append(replies, g.resp))
               ELSE OneRead(r.rest, map, Append(replies, NULL_BULK))

\* a task is waiting in stream.read, or has left its loop
AtRead(c) == pc[c] \in {"read", "closed"}

\* C1: fragmentation independence. However the stream of well-formed
\* commands is cut into reads, the replies written so far are the first
\* replies of the single-read run, and once the whole stream has been read
\* and the task is back in stream.read they are exactly the replies of the
\* single-read run: one reply per command, no byte lost or decoded twice.
C1_FragmentationIndependence ==
  \A c \in Conns :
    LET whole == OneRead(stream[c], EmptyMap, <<>>)
    IN /\ IsPrefix(out[c], whole)
       /\ (AtRead(c) /\ pos[c] = Len(stream[c])) => out[c] = whole

\* The same statement for the streams that are UTF-8 text only.
C1_TextStreams ==
  \A c \in Conns :
    LET whole == OneRead(stream[c], EmptyMap, <<>>)
    IN from_utf8_ok(stream[c]) =>
         /\ IsPrefix(out[c], whole)
         /\ (AtRead(c) /\ pos[c] = Len(stream[c])) => out[c] = whole

\* C1 witness: a read ended right after the array header of the third
\* command; the first two commands have their replies and the task waits in
\* stream.read with only the header in its buffer.
C1_Witness ==
  /\ pc["c1"] = "read"
  /\ buffer["c1"] = <<"*", "2">> \o CRLF
  /\ out["c1"] = <<PONG, OK>>

\* ---- the shapes of frames the claims speak of

\* element i (0-based) of the array is a present bulk string
PresentBulk(items, i) == i < Len(items) /\ items[i + 1].t = "BulkString"

\* an array whose first element is a present bulk string
IsCommand(value) == value.t = "Array" /\ PresentBulk(value.items, 0)

\* the command name, compared case-insensitively
NameOf(value) == to_uppercase(value.items[1].s)

Contains(hay, needle) ==
  \E i \in 0..(Len(hay) - Len(needle)) :
    SubSeq(hay, i + 1, i + Len(needle)) = needle

IsErrorReply(resp) == Len(resp) > 0 /\ resp[1] = "-"

\* the task of c takes a step
Steps(c) == pc'[c] # pc[c] \/ local'[c] # local[c] \/ out'[c] # out[c]

\* C2: when the decoder fails with InvalidFormat on the (non-empty) buffer, or
\* the decoded value is not an array whose first element is a present bulk
\* string, the task writes a generic protocol-error reply and terminates.
C2_InvalidFormatIsFatal ==
  [][\A c \in Conns :
       LET r == decode(buffer[c])
       IN /\ (/\ pc[c] = "decode"
              /\ Steps(c)
              /\ \/ r.kind = "InvalidFormat" /\ buffer[c] # <<>>
                 \/ r.kind = "Ok" /\ ~IsCommand(r.value))
             => (pc'[c] = "write" /\ IsErrorReply(local'[c].resp))
          /\ (pc[c] = "write" /\ Steps(c) /\ ~IsCommand(local[c].frame))
             => pc'[c] = "closed"]_vars

\* a command whose name is none of the four the server knows
IsUnknownCommand(value) ==
  IsCommand(value) /\ NameOf(value) \notin {C_PING, C_ECHO, C_GET, C_SET}

\* C8: a command whose name is none of PING, ECHO, GET, SET is answered with
\* an error reply that names the command with the token as it was sent.
C8_UnknownCommandIsNamed ==
  \A c \in Conns :
    (pc[c] = "write" /\ IsUnknownCommand(local[c].frame))
      => /\ IsErrorReply(local[c].resp)
         /\ Contains(local[c].resp, local[c].frame.items[1].s)

\* a SET with a present key and value; its PX option with a number
IsSetWithKeyAndValue(value) ==
  /\ IsCommand(value)
  /\ NameOf(value) = C_SET
  /\ PresentBulk(value.items, 1)
  /\ PresentBulk(value.items, 2)

HasPxOption(value) ==
  /\ Len(value.items) >= 5
  /\ PresentBulk(value.items, 3)
  /\ PresentBulk(value.items, 4)
  /\ to_uppercase(value.items[4].s) = C_PX
  /\ AllDigits(value.items[5].s)

\* C9: a SET with a present key and value whose positions four and five are
\* not PX followed by a non-negative integer is stored without expiry and
\* answered +OK, never with an error.
C9_SetOptionsAreLenient ==
  \A c \in Conns :
    (IsSetWithKeyAndValue(local[c].frame) /\ ~HasPxOption(local[c].frame))
      => /\ local[c].expires_at = None
         /\ pc[c] = "write" => local[c].resp = OK

\* ---- the store claims

\* the task of c makes the expiry test of the "GET" arm
GetCheckStep(c) == pc[c] = "get_check" /\ pc'[c] = "write"

\* the n and the v of the `SET k v PX n` that inserted the entry last
PxArg(frame) == DecValue(frame.items[5].s)
ValueArg(frame) == frame.items[3].s

\* C3 (as claimed): after `SET k v PX n`, a GET that reads the clock fewer
\* than n ms after the SET read it replies v, and a GET n or more ms after
\* replies the null bulk string.
C3_ExpiryBoundary ==
  [][\A c \in Conns :
       GetCheckStep(c) =>
         LET s == lastSet[local[c].key]
             elapsed == now - s.at
         IN HasPxOption(s.frame) =>
              /\ elapsed < PxArg(s.frame)
                   => local'[c].resp = bulk_reply(ValueArg(s.frame))
              /\ elapsed >= PxArg(s.frame) => local'[c].resp = NULL_BULK]_vars

\* C3 (amended): the GET replies v when n or fewer ms have elapsed, and the
\* null bulk string when more than n ms have elapsed.
C3_ExpiryBoundaryAmended ==
  [][\A c \in Conns :
       GetCheckStep(c) =>
         LET s == lastSet[local[c].key]
             elapsed == now - s.at
         IN HasPxOption(s.frame) =>
              /\ elapsed <= PxArg(s.frame)
                   => local'[c].resp = bulk_reply(ValueArg(s.frame))
              /\ elapsed > PxArg(s.frame) => local'[c].resp = NULL_BULK]_vars

\* C3 witness: a GET has answered with the value at the very instant of the
\* expiry (exactly n ms after the SET).
C3_Witness ==
  \E c \in Conns :
    /\ pc[c] = "write"
    /\ local[c].entry.present
    /\ local[c].entry.expires_at = Some(now)
    /\ local[c].resp = bulk_reply(local[c].entry.value)

\* C4: a SET replaces the whole entry. Every entry holds the value of the
\* SET that inserted it last and, when that SET had no PX, no expiry; a GET
\* of such a key replies that value at any time and leaves the store alone.
C4_OverwriteDropsExpiry ==
  /\ [](\A k \in DOMAIN db :
          /\ k \in DOMAIN lastSet
          /\ db[k].value = ValueArg(lastSet[k].frame)
          /\ ~HasPxOption(lastSet[k].frame) => db[k].expires_at = None)
  /\ [][\A c \in Conns :
          (GetCheckStep(c) /\ ~HasPxOption(lastSet[local[c].key].frame))
            => /\ local'[c].resp = bulk_reply(ValueArg(lastSet[local[c].key].frame))
               /\ db' = db]_vars

\* C4 witness: after `SET k v PX 1` and `SET k x`, the GET of the first
\* connection replies x from an entry that has no expiry.
C4_Witness ==
  /\ stream["c1"] = Flatten(OverwriteScript)
  /\ out["c1"] = <<OK, OK>>
  /\ pc["c1"] = "write"
  /\ local["c1"].resp = bulk_reply(X)
  /\ K \in DOMAIN db
  /\ db[K] = ValueEntry(X, None)

\* the expiry of the entry is strictly before the current time
StrictlyPast(entry) == entry.expires_at.some /\ entry.expires_at.v < now

StoreStep(c) ==
  \/ pc[c] \in {"set_lock", "get_lock"} /\ pc'[c] # pc[c]
  \/ GetCheckStep(c)

\* C6: mutual exclusion on the store. At most one task holds the guard;
\* every step that reads or changes the map is made by the one task holding
\* it; and between the lookup of a GET and its expiry test and removal the
\* map does not change, so the entry it tests is still the entry of its key.
C6_StoreMutualExclusion ==
  /\ [](/\ Cardinality(lock) <= 1
        /\ \A c \in Conns :
             pc[c] = "get_check" =>
               /\ c \in lock
               /\ get(db, local[c].key) = local[c].entry)
  /\ [][/\ \A c \in Conns : StoreStep(c) => lock' = {c}
        /\ \A c \in Conns : (pc[c] = "get_check" /\ ~Steps(c)) => db' = db
        /\ db' # db => \E c \in Conns : StoreStep(c)]_vars

\* C6 witness: the first task is between its lookup and its expiry test
\* while the second waits for the lock with a SET.
C6_Witness ==
  /\ pc["c1"] = "get_check"
  /\ pc["c2"] = "set_lock"

\* ---- commands and replies, one connection at a time

\* the frames a text holds: what the turns of the decoding loop decode from
\* it, one after the other
RECURSIVE FramesOf(_)
FramesOf(text) ==
  LET r == decode(text)
  IN IF r.kind # "Ok" THEN <<>> ELSE <<r.value>> \o FramesOf(r.rest)

\* the part of the stream that has left the buffer of the task
Consumed(c) == SubSeq(stream[c], 1, pos[c] - Len(buffer[c]))

\* the task is inside handle_command
Handling(c) == pc[c] \in {"write", "set_lock", "get_lock", "get_check"}

\* the replies a command may get, whatever the store holds
Answers(frame) ==
  LET h == handle_command(frame, 0)
  IN IF h.next = "write" THEN {h.resp}
     ELSE IF h.next = "set_lock" THEN {OK}
     ELSE {NULL_BULK} \cup {bulk_reply(v) : v \in {V, W, X}}

IsValidationFailure(value) ==
  /\ IsCommand(value)
  /\ \/ NameOf(value) = C_ECHO /\ ~PresentBulk(value.items, 1)
     \/ NameOf(value) = C_GET /\ ~PresentBulk(value.items, 1)
     \/ NameOf(value) = C_SET
          /\ (~PresentBulk(value.items, 1) \/ ~PresentBulk(value.items, 2))

IsEchoWithMessage(value) ==
  IsCommand(value) /\ NameOf(value) = C_ECHO /\ PresentBulk(value.items, 1)

\* C10: a command-level validation failure (ECHO without a bulk message, GET
\* without a bulk key, SET lacking a bulk key or value) gets exactly one
\* error reply, never reaches the store, and leaves the session open: the
\* decoding loop goes on and the valid commands after it get their normal
\* replies.
C10_ValidationFailuresKeepOpen ==
  /\ [](\A c \in Conns :
          LET frames == FramesOf(Consumed(c))
          IN /\ Len(frames) = Len(out[c]) + (IF Handling(c) THEN 1 ELSE 0)
             /\ \A i \in 1..Len(out[c]) :
                  /\ IsValidationFailure(frames[i]) => IsErrorReply(out[c][i])
                  /\ IsEchoWithMessage(frames[i])
                       => out[c][i] = bulk_reply(frames[i].items[2].s)
             /\ IsValidationFailure(local[c].frame) =>
                  /\ pc[c] = "write"
                  /\ c \notin lock
                  /\ IsErrorReply(local[c].resp)
             /\ (pc[c] = "closed" /\ stream[c] = Flatten(ValidationScript))
                  => Len(out[c]) = Len(ValidationScript))
  /\ [][\A c \in Conns :
          (Steps(c) /\ (IsValidationFailure(local[c].frame)
                        \/ IsValidationFailure(local'[c].frame)))
            => /\ db' = db
               /\ pc'[c] \in {"write", "decode"}]_vars

\* C10 witness: the session that sent five failing commands and then
\* `echo hi` and `GET k` has answered all seven and ended only when its peer
\* closed; the sixth reply is the echoed message.
C10_Witness ==
  /\ stream["c1"] = Flatten(ValidationScript)
  /\ pc["c1"] = "closed"
  /\ Len(out["c1"]) = 7
  /\ \A i \in 1..5 : IsErrorReply(out["c1"][i])
  /\ out["c1"][6] = bulk_reply(HI)

\* ---- misses

\* a GET with a present key
IsGetOf(value, key) ==
  /\ IsCommand(value)
  /\ NameOf(value) = C_GET
  /\ Len(value.items) = 2
  /\ PresentBulk(value.items, 1)
  /\ value.items[2].s = key

\* no SET of the key has inserted an entry so far
NeverSet(key) == key \notin DOMAIN lastSet

\* C11: idempotence of miss. As long as no SET of a key has occurred, the
\* store holds no entry for it; a GET of it, on any connection and however
\* many came before, finds nothing, leaves the store unchanged and has the
\* null bulk string written as its reply.
C11_MissIsIdempotent ==
  /\ [](\A k \in {J, K} : NeverSet(k) => k \notin DOMAIN db)
  /\ [][\A c \in Conns :
          /\ (pc[c] = "get_lock" /\ Steps(c) /\ NeverSet(local[c].key))
               => /\ pc'[c] = "write"
                  /\ local'[c].resp = NULL_BULK
                  /\ db' = db
          /\ (pc[c] = "write" /\ Steps(c)
                 /\ \E k \in {J, K} : IsGetOf(local[c].frame, k) /\ NeverSet(k))
               => out'[c] = Append(out[c], NULL_BULK)]_vars

\* C11 witness: the first connection has had null for two GETs of j and the
\* second for one, another key has been set meanwhile, and the store still
\* holds no entry for j.
C11_Witness ==
  /\ out["c1"] = <<NULL_BULK, NULL_BULK>>
  /\ out["c2"] = <<NULL_BULK, OK>>
  /\ J \notin DOMAIN db
  /\ K \in DOMAIN db

\* ---- the decoder

\* the values that encode to the text
ValuesEncodedAs(text) == {v \in DecodedValues : encode(v) = text}

\* the frame a reply should decode to: the message of a PING as a status
\* string, the message of an ECHO as a bulk string; a GET is answered with a
\* bulk string, present or null; anything else with a status or an error
CarriesTextOf(frame, value) ==
  IF IsCommand(frame) /\ NameOf(frame) = C_PING /\ PresentBulk(frame.items, 1)
    THEN value = SimpleString(frame.items[2].s)
  ELSE IF IsEchoWithMessage(frame) THEN value = BulkString(frame.items[2].s)
  ELSE IF \E k \in {J, K} : IsGetOf(frame, k)
    THEN value.t \in {"BulkString", "NullBulk"}
  ELSE value.t \in {"SimpleString", "Error"}

\* C12 (first half): the text that encodes a decoded value decodes to that
\* value with an empty remainder.
C12_ValuesRoundTrip ==
  \A c \in Conns :
    pc[c] = "decode" =>
      \A v \in ValuesEncodedAs(buffer[c]) : decode(buffer[c]) = Ok(v, <<>>)

\* C12: round trip. The text that encodes a decoded value decodes to that
\* value with an empty remainder, and every reply the server writes decodes
\* to exactly one frame, with an empty remainder, that carries the text of
\* the command it answers.
C12_RoundTrip ==
  /\ C12_ValuesRoundTrip
  /\ \A c \in Conns :
       LET frames == FramesOf(Consumed(c))
       IN \A i \in 1..Len(out[c]) :
            LET r == parse(out[c][i])
            IN /\ r.kind = "Ok"
               /\ r.rest = <<>>
               /\ CarriesTextOf(frames[i], r.value)

\* the values of which the text is the beginning of the encoding, without
\* being all of it
ValuesBegunBy(text) ==
  {v \in DecodedValues :
     Len(text) > 0 /\ Len(text) < Len(encode(v)) /\ IsPrefix(text, encode(v))}

\* C14: Incomplete versus InvalidFormat. On a text that is the beginning of
\* a well-formed frame, and not all of it, the decoder fails with
\* Incomplete, never with InvalidFormat; also when the text ends after an
\* array header or between two elements of an array.
C14_PrefixIsIncomplete ==
  \A c \in Conns :
    (pc[c] = "decode" /\ from_utf8_ok(buffer[c])
       /\ ValuesBegunBy(buffer[c]) # {})
      => parse(buffer[c]).kind = "Incomplete"

\* What holds of such a text: the decoder fails, with one of the two kinds.
C14_PrefixIsNoFrame ==
  \A c \in Conns :
    (pc[c] = "decode" /\ from_utf8_ok(buffer[c])
       /\ ValuesBegunBy(buffer[c]) # {})
      => parse(buffer[c]).kind \in {"Incomplete", "InvalidFormat"}

\* How much of the beginning of a text spells a value, or -1 when the text
\* does not begin with a spelling of it. A spelling is the wire encoding up
\* to the way a number is written (a sign, leading zeros): the tag, the
\* line up to the first CRLF, and for a present bulk string a payload of
\* exactly the declared length followed by CRLF, for an array of declared
\* count n exactly n spelled elements (none for the count -1).
RECURSIVE SpellingLen(_, _)
RECURSIVE SpellingLenAll(_, _)
SpellingLenAll(text, items) ==
  IF Len(items) = 0 THEN 0
  ELSE LET n == SpellingLen(text, Head(items))
           m == SpellingLenAll(Skip(text, n), Tail(items))
       IN IF n < 0 THEN -1 ELSE IF m < 0 THEN -1 ELSE n + m

SpellingLen(text, value) ==
  LET eol == find(text)
      line == SubSeq(text, 2, eol.v)
      num == parse_signed(line)
      body == Skip(text, eol.v + 2)
      size == Len(value.s)
      all == SpellingLenAll(body, value.items)
  IN IF Len(text) = 0 \/ ~eol.some THEN -1
     ELSE IF value.t = "SimpleString"
       THEN (IF text[1] = "+" /\ line = value.s THEN eol.v + 2 ELSE -1)
     ELSE IF value.t = "Error"
       THEN (IF text[1] = "-" /\ line = value.s THEN eol.v + 2 ELSE -1)
     ELSE IF value.t = "Integer"
       THEN (IF text[1] = ":" /\ num = Some(value.n) THEN eol.v + 2 ELSE -1)
     ELSE IF value.t = "NullBulk"
       THEN (IF text[1] = "$" /\ num = Some(-1) THEN eol.v + 2 ELSE -1)
     ELSE IF value.t = "BulkString"
       THEN (IF /\ text[1] = "$"
                /\ num = Some(size)
                /\ Len(body) >= size + 2
                /\ Take(body, size) = value.s
                /\ SubSeq(body, size + 1, size + 2) = CRLF
               THEN eol.v + 2 + size + 2 ELSE -1)
     ELSE (IF /\ text[1] = "*"
              /\ \/ num = Some(Len(value.items))
                 \/ num = Some(-1) /\ value.items = <<>>
              /\ all >= 0
             THEN eol.v + 2 + all ELSE -1)

\* the task of c decodes a frame from its buffer
DecodeOk(c) ==
  pc[c] = "decode" /\ pc'[c] \in {"write", "set_lock", "get_lock"}

\* C18 (as claimed): the decoder consumes exactly one frame. Whenever
\* decoding succeeds the buffer is the wire encoding of the value it
\* returns followed by the remainder it returns.
C18_ExactlyOneFrame ==
  [][\A c \in Conns :
       DecodeOk(c) => buffer[c] = encode(local'[c].frame) \o buffer'[c]]_vars

\* C18 (amended): whenever decoding succeeds the buffer is a spelling of the
\* value returned followed by the remainder returned, untouched: the
\* payload of a present bulk string has exactly the declared length and is
\* followed by CRLF, an array has exactly the declared number of elements
\* (none for the count -1), and the text consumed is the wire encoding of
\* the value up to the way its numbers are written.
C18_OneFrameSpelled ==
  [][\A c \in Conns :
       DecodeOk(c) =>
         LET value == local'[c].frame
             rest == buffer'[c]
             n == Len(buffer[c]) - Len(rest)
         IN /\ n > 0
            /\ rest = Skip(buffer[c], n)
            /\ SpellingLen(buffer[c], value) = n
            /\ parse(encode(value) \o rest) = Ok(value, rest)]_vars

\* C18 witness: from `$01\r\na\r\n` followed by a PING the task has decoded
\* the bulk string a, whose encoding is `$1\r\na\r\n`, and the PING is left
\* in its buffer.
C18_Witness ==
  /\ pc["c1"] = "write"
  /\ local["c1"].frame = BulkString(<<"a">>)
  /\ Consumed("c1") = <<"$", "0", "1">> \o CRLF \o <<"a">> \o CRLF
  /\ buffer["c1"] = Command(<<C_PING>>)

\* C19: the decoder is total. On every text it returns a value and a
\* remainder, Incomplete or InvalidFormat, and the task never aborts; a
\* length or a count below -1 is answered with one of the two error kinds.
C19_DecoderIsTotal ==
  \A c \in Conns :
    /\ pc[c] # "panicked"
    /\ (pc[c] = "decode" /\ from_utf8_ok(buffer[c]))
         => parse(buffer[c]).kind \in {"Ok", "Incomplete", "InvalidFormat"}

\* ---- the expiry and the lock

\* the task of c inserts its entry
InsertStep(c) == pc[c] = "set_lock" /\ pc'[c] = "write"

\* C15: the expiry of `SET k v PX n` is anchored at the insertion. However
\* long the task waited for the guard, the expiry it stores is the time of
\* the insertion under the guard plus n ms: the entry it inserts has its n
\* ms to live, during which the expiry test of a GET lets it pass.
C15_ExpiryAnchoredAtInsertion ==
  [][\A c \in Conns :
       (InsertStep(c) /\ HasPxOption(local[c].frame))
         => /\ db'[local[c].key].expires_at
                 = Some(now + PxArg(local[c].frame))
            /\ \A t \in now..(now + PxArg(local[c].frame) - 1) :
                 ~is_expired(db'[local[c].key], t)]_vars

\* the task of c waits for the guard
WaitsForGuard(c) == pc[c] \in {"set_lock", "get_lock"}

\* C16: a stalled peer cannot block the store. A task suspended in the write
\* of a reply holds no guard, so whatever task waits for the guard
\* meanwhile can take it.
C16_NoGuardAcrossWrite ==
  \A c \in Conns :
    pc[c] = "write" =>
      /\ c \notin lock
      /\ \A d \in Conns \ {c} : WaitsForGuard(d) => can_lock(lock)

\* ---- the order of the store operations

\* the expiry a SET asks for: the time it read the clock plus its PX
ExpiryOf(s) ==
  IF HasPxOption(s.frame) THEN Some(s.at + PxArg(s.frame)) ELSE None

\* the entry of the SET is not expired at time t
Live(s, t) == ~ExpiryOf(s).some \/ t <= ExpiryOf(s).v

\* the task of c is about to write the +OK of a SET
AcksSet(c) ==
  pc[c] = "write" /\ IsSetWithKeyAndValue(local[c].frame) /\ local[c].resp = OK

\* C17: the store operations are linearizable in the order in which they
\* take the guard. lastSet[k] is the latest SET of k in that order. A GET of
\* k replies the value of that SET when its entry is not expired at the
\* time of the GET, and null when it is expired or k was never SET,
\* whichever connections sent the two; and a SET is in the map, and is the
\* latest, before its +OK is written, so that every GET that starts after
\* the +OK sees it or a later SET.
C17_Linearizable ==
  /\ [](/\ \A k \in DOMAIN db :
             /\ k \in DOMAIN lastSet
             /\ db[k] = ValueEntry(ValueArg(lastSet[k].frame),
                                   ExpiryOf(lastSet[k]))
        /\ \A c \in Conns :
             AcksSet(c) =>
               /\ local[c].key \in DOMAIN lastSet
               /\ lastSet[local[c].key].frame = local[c].frame
               /\ get(db, local[c].key).value = ValueArg(local[c].frame))
  /\ [][\A c \in Conns :
          LET k == local[c].key
          IN /\ GetCheckStep(c) =>
                  local'[c].resp =
                    IF Live(lastSet[k], now)
                      THEN bulk_reply(ValueArg(lastSet[k].frame))
                      ELSE NULL_BULK
             /\ (pc[c] = "get_lock" /\ pc'[c] = "write") =>
                  /\ local'[c].resp = NULL_BULK
                  /\ k \in DOMAIN lastSet => ~Live(lastSet[k], now)
             /\ (pc[c] = "get_lock" /\ pc'[c] = "get_check") =>
                  k \in DOMAIN lastSet
             /\ (pc[c] = "write" /\ Steps(c)) =>
                  out'[c] = Append(out[c], local[c].resp)]_vars

\* C17 witness: the second connection replies to its GET the value w that
\* it set itself after the first connection's SET, while the first
\* connection, whose SET came earlier in the order, waits for the guard
\* with its own GET.
C17_Witness ==
  /\ stream["c1"] = Flatten(ExpiryScript)
  /\ out["c1"] = <<OK>>
  /\ pc["c1"] = "get_lock"
  /\ out["c2"] = <<OK>>
  /\ pc["c2"] = "write"
  /\ local["c2"].resp = bulk_reply(W)
  /\ lastSet[K].frame.items[3].s = W

\* ---- the end of a session

\* stream.read returns Ok(0) or Err: the peer is gone
PeerGone(c) == pc[c] = "read" /\ pos[c] = Len(stream[c])

\* the task of c ends
Terminates(c) == pc[c] # "closed" /\ pc'[c] = "closed"

\* the write the task of c is suspended on fails
WriteFails(c) ==
  pc[c] = "write" /\ ~write_all_ok(writable[c], Len(out[c]))

\* C13: session termination. The task ends when stream.read returns zero
\* bytes or an error, whatever its buffer holds, and only then: a reply
\* whose write fails is dropped and the decoding loop goes on. A task that
\* ends holds no guard, and its end changes neither the store nor anything
\* of another session; the entries it has SET stay in the map, where the
\* GETs of the other connections find them.
C13_SessionTermination ==
  /\ [](\A c \in Conns :
          pc[c] = "closed" =>
            /\ c \notin lock
            /\ \A k \in DOMAIN lastSet : k \in DOMAIN db)
  /\ [][\A c \in Conns :
          /\ (PeerGone(c) /\ Steps(c)) => Terminates(c)
          /\ Terminates(c) =>
               /\ PeerGone(c)
               /\ db' = db
               /\ lock' = lock
               /\ \A d \in Conns \ {c} :
                    /\ pc'[d] = pc[d]
                    /\ local'[d] = local[d]
                    /\ buffer'[d] = buffer[d]
                    /\ out'[d] = out[d]
          /\ (WriteFails(c) /\ Steps(c)) =>
               /\ pc'[c] = "decode"
               /\ out'[c] = out[c]
               /\ c \notin lock'
               /\ db' = db
          /\ \A d \in Conns \ {c} :
               (pc[c] = "closed" /\ pc[d] = "get_lock" /\ Steps(d)
                  /\ local[d].key \in DOMAIN lastSet)
                 => /\ pc'[d] = "get_check"
                    /\ local'[d].entry.value = ValueArg(lastSet[local[d].key].frame)
         ]_vars

\* C13 witness: the first session, none of whose replies could be written,
\* has ended with half a frame in its buffer; the key it set is in the map,
\* and the second session is about to reply its value.
C13_Witness ==
  /\ pc["c1"] = "closed"
  /\ buffer["c1"] # <<>>
  /\ writable["c1"] = Some(0)
  /\ out["c1"] = <<>>
  /\ lock = {"c2"}
  /\ pc["c2"] = "write"
  /\ local["c2"].resp = bulk_reply(V)

====
